---------------------------- MODULE Spec2Model ----------------------------
(***************************************************************************)
(* Model of prometheus_mcp_server/server.py: the tenant registry           *)
(* (PrometheusTenant, PrometheusConfig, load_multi_tenant_config), the     *)
(* auth resolver (get_prometheus_auth), the request executor               *)
(* (make_prometheus_request) and the tool handlers built on them.          *)
(*                                                                         *)
(* Python values are modelled as follows.                                  *)
(*   - None is the string None below; a str is a TLA+ string; a URL is a   *)
(*     sequence of characters so that rstrip('/') is computed.             *)
(*   - A dict is a function whose DOMAIN is the set of keys present, so    *)
(*     d[k] on a missing key is a KeyError and d.get(k) a default.         *)
(*   - An exception is a record Exc(type, text, tenant, detail, available) *)
(*     holding the exception class and the parts its message is built      *)
(*     from, so that "the message contains X" is a statement on fields.    *)
(*                                                                         *)
(* The MCP transport settings (MCPServerConfig, lines 34-47, 103-107, and  *)
(* the field mcp_server_config, line 73) are process start-up plumbing and *)
(* are left out.  As written they stop the import with a TypeError (a      *)
(* dataclass field without default after one with a default; a plain class *)
(* called with arguments), so the model is of the registry logic of        *)
(* __post_init__ and load_multi_tenant_config with that plumbing removed.  *)
(***************************************************************************)
EXTENDS Integers, Sequences, FiniteSets, TLC

VARIABLES
    env,        \* the environment variables read by load_multi_tenant_config
    pc,         \* "start" | "config_error" | "ready" | "fanout" | "served"
    config,     \* the module-level PrometheusConfig (tenants, default_tenant)
    load_error, \* the exception that ended the import, or NoExc
    call,       \* the tool call being (or last) served
    requests,   \* the HTTP requests issued by that call, in order
    responses,  \* what the backends answered to them, in the same order
    outcome,    \* what that call returned or raised
    results,    \* execute_query_all_tenants: the results dict
    errors,     \* execute_query_all_tenants: the errors dict
    idx         \* execute_query_all_tenants: iterations of the loop done

vars == <<env, pc, config, load_error, call, requests, responses, outcome,
          results, errors, idx>>

-----------------------------------------------------------------------------
(* Bounds of the model *)

\* Largest number of entries of the PROMETHEUS_TENANTS array.
MaxTenants == 2

-----------------------------------------------------------------------------
(* Python values *)

None == "<None>"

\* Python truthiness of an Optional[str]: None and "" are falsy.
Truthy(x) == x # None /\ x # ""

\* dict.get(key) and dict.get(key, default)
Get(d, k, default) == IF k \in DOMAIN d THEN d[k] ELSE default

EmptyDict == [k \in {} |-> None]

\* d[k] = v on a dict (insert or overwrite)
DictSet(d, k, v) == [x \in (DOMAIN d) \cup {k} |-> IF x = k THEN v ELSE d[x]]

Exc(type, text, tenant, detail, available) ==
    [type |-> type, text |-> text, tenant |-> tenant, detail |-> detail,
     available |-> available]

NoExc == Exc("none", "", None, None, <<>>)

\* str.rstrip('/') on a sequence of characters
RECURSIVE rstrip(_)
rstrip(s) ==
    IF s # <<>> /\ s[Len(s)] = "/" THEN rstrip(SubSeq(s, 1, Len(s) - 1)) ELSE s

-----------------------------------------------------------------------------
(* The environment: PROMETHEUS_TENANTS, PROMETHEUS_DEFAULT_TENANT and the   *)
(* single-tenant variables.                                                *)

U1 == <<"h">>
U1s == <<"h", "/">>
U2 == <<"g", "/", "/">>

\* Elements of the PROMETHEUS_TENANTS array.  The optional keys are simply
\* left out, as in JSON.  The set holds every way a record can be rejected
\* and, for the records that are accepted, the authentication shapes, records
\* of the same name and URLs with and without trailing slashes.
TenantData ==
    { [name |-> "a", url |-> U1],
      [name |-> "a", url |-> U1s, username |-> "u", org_id |-> ""],
      [name |-> "b", url |-> U2, username |-> "u", password |-> "p"],
      [name |-> "b", url |-> U1, username |-> "u", password |-> "p",
       token |-> "t", org_id |-> "o"],
      [name |-> "a", url |-> U2, token |-> "t", org_id |-> "o"],
      [name |-> "", url |-> U1],
      [name |-> "a", url |-> <<>>],
      [name |-> "a"],
      [url |-> U1] }

SeqsUpTo(S, n) == UNION { [1..k -> S] : k \in 0..n }

\* PROMETHEUS_TENANTS: unset (or empty), not JSON, or a JSON array.
TenantsJson ==
    { [kind |-> "unset", items |-> <<>>], [kind |-> "invalid", items |-> <<>>] }
    \cup { [kind |-> "array", items |-> s] : s \in SeqsUpTo(TenantData, MaxTenants) }

\* PROMETHEUS_DEFAULT_TENANT
DefaultNames == {None, "", "b", "c"}

\* The single-tenant variables PROMETHEUS_URL, _USERNAME, _PASSWORD, _TOKEN and
\* ORG_ID: each credential unset, empty or set.
OptionalStr(v) == {None, "", v}

SingleEnv ==
    { [url |-> <<>>, username |-> None, password |-> None, token |-> None,
       org_id |-> None] }
    \cup [url : {U1s}, username : OptionalStr("u"), password : OptionalStr("p"),
          token : OptionalStr("t"), org_id : {None, "o"}]

NoSingle == CHOOSE s \in SingleEnv : s.url = <<>>

\* The single-tenant variables are read only when PROMETHEUS_TENANTS is unset,
\* and PROMETHEUS_DEFAULT_TENANT only when it is set.
EnvSet ==
    { [tenants_json |-> tj, default |-> d, single |-> NoSingle] :
        tj \in { t \in TenantsJson : t.kind # "unset" }, d \in DefaultNames }
    \cup { [tenants_json |-> [kind |-> "unset", items |-> <<>>], default |-> None,
            single |-> s] : s \in SingleEnv }

-----------------------------------------------------------------------------
(* PrometheusTenant and PrometheusConfig *)

\* PrometheusTenant(...) as load_multi_tenant_config builds it from one
\* element of the array: the dataclass fields, absent optional keys None.
PrometheusTenant(td) ==
    [name |-> td["name"], url |-> td["url"],
     username |-> Get(td, "username", None),
     password |-> Get(td, "password", None),
     token |-> Get(td, "token", None),
     org_id |-> Get(td, "org_id", None)]

\* The exception construction of one array element raises, or NoExc:
\* tenant_data["name"] / ["url"] (KeyError, turned into ValueError at line
\* 141) and PrometheusTenant.__post_init__.
TenantError(td) ==
    IF "name" \notin DOMAIN td
      THEN Exc("ValueError", "Missing required field in tenant configuration",
               None, "name", <<>>)
    ELSE IF "url" \notin DOMAIN td
      THEN Exc("ValueError", "Missing required field in tenant configuration",
               None, "url", <<>>)
    ELSE IF td["name"] = ""
      THEN Exc("ValueError", "Tenant name is required", None, None, <<>>)
    ELSE IF td["url"] = <<>>
      THEN Exc("ValueError", "URL is required for tenant", td["name"], None, <<>>)
    ELSE NoExc

\* PrometheusConfig.get_tenant: the first record of that name, or NoTenant
NoTenant == [name |-> None, url |-> <<>>, username |-> None, password |-> None,
             token |-> None, org_id |-> None]

get_tenant(cfg, name) ==
    IF \E i \in 1..Len(cfg.tenants) : cfg.tenants[i].name = name
      THEN LET i == CHOOSE i \in 1..Len(cfg.tenants) :
                      /\ cfg.tenants[i].name = name
                      /\ \A j \in 1..(i - 1) : cfg.tenants[j].name # name
           IN cfg.tenants[i]
      ELSE NoTenant

\* PrometheusConfig.list_tenant_names
list_tenant_names(cfg) == [i \in 1..Len(cfg.tenants) |-> cfg.tenants[i].name]

NoConfig == [tenants |-> <<>>, default_tenant |-> None]

\* __post_init__ without the check of lines 85-86
Unchecked_PrometheusConfig(tenants, default_tenant) ==
    IF tenants = <<>>
      THEN [exc |-> Exc("ValueError", "At least one tenant must be configured",
                        None, None, <<>>),
            cfg |-> NoConfig]
    ELSE [exc |-> NoExc,
          cfg |-> [tenants |-> tenants,
                   default_tenant |-> IF ~Truthy(default_tenant)
                                        THEN tenants[1].name
                                        ELSE default_tenant]]

\* PrometheusConfig(tenants, default_tenant) with __post_init__: the
\* exception raised (or NoExc) and the object built.
PrometheusConfig(tenants, default_tenant) ==
    IF tenants = <<>>
      THEN [exc |-> Exc("ValueError", "At least one tenant must be configured",
                        None, None, <<>>),
            cfg |-> NoConfig]
    ELSE LET d == IF ~Truthy(default_tenant) THEN tenants[1].name
                  ELSE default_tenant
             cfg == [tenants |-> tenants, default_tenant |-> d]
         IN IF Truthy(d) /\ get_tenant(cfg, d) = NoTenant
              THEN [exc |-> Exc("ValueError", "Default tenant not found in tenant list",
                                d, None, <<>>),
                    cfg |-> NoConfig]
              ELSE [exc |-> NoExc, cfg |-> cfg]

\* load_multi_tenant_config
load_multi_tenant_config(e) ==
    IF e.tenants_json.kind = "invalid"
      THEN [exc |-> Exc("ValueError", "Invalid JSON in PROMETHEUS_TENANTS",
                        None, None, <<>>),
            cfg |-> NoConfig]
    ELSE IF e.tenants_json.kind = "array"
      THEN LET items == e.tenants_json.items
               bad == { i \in 1..Len(items) : TenantError(items[i]) # NoExc }
           IN IF bad # {}
                THEN [exc |-> TenantError(items[CHOOSE i \in bad :
                                                  \A j \in bad : i <= j]),
                      cfg |-> NoConfig]
                ELSE PrometheusConfig(
                         [i \in 1..Len(items) |-> PrometheusTenant(items[i])],
                         e.default)
    ELSE IF e.single.url = <<>>
      THEN [exc |-> Exc("ValueError",
                        "Either PROMETHEUS_TENANTS or PROMETHEUS_URL must be set",
                        None, None, <<>>),
            cfg |-> NoConfig]
    ELSE PrometheusConfig(
             << [name |-> "default", url |-> e.single.url,
                 username |-> e.single.username, password |-> e.single.password,
                 token |-> e.single.token, org_id |-> e.single.org_id] >>,
             "default")

-----------------------------------------------------------------------------
(* The backend: what one HTTP GET can come back with *)

\* JSON values: [json |-> "object", obj |-> dict], [json |-> "array",
\* items |-> sequence]; a body that is not JSON is [json |-> "invalid"].
JObject(d) == [json |-> "object", obj |-> d]
JArray(s) == [json |-> "array", items |-> s]
NotJson == [json |-> "invalid"]

\* The payloads of the endpoints: an instant/range query result, the metric
\* names, the metric metadata, the scrape targets.
PVector == JObject([resultType |-> "vector", result |-> <<"sample">>])
PNames == JArray(<<"up", "go_info">>)
PMeta == JObject([metadata |-> <<"help">>])
PTargets == JObject([activeTargets |-> <<"t1", "t2">>, droppedTargets |-> <<>>])
Payloads == {PVector, PNames, PMeta, PTargets}

\* The envelopes {status, error?, data?}: without a status, with a status
\* other than "success" (with and without an error string, with and without
\* data), and successful with each payload or none.
Envelopes ==
    { JObject(EmptyDict), JObject([data |-> PVector]) }
    \cup { JObject([status |-> "error"]),
           JObject([status |-> "error", error |-> "bad query"]),
           JObject([status |-> "error", data |-> PVector]),
           JObject([status |-> "error", error |-> "bad query", data |-> PVector]) }
    \cup { JObject([status |-> "success"]) }
    \cup { JObject([status |-> "success", data |-> d]) : d \in Payloads }

Bodies == {NotJson, JArray(<<>>)} \cup Envelopes

\* The bodies that come with a status that is not 2xx: Prometheus reports a
\* rejected query as status 400 or 422 with an error envelope; a proxy may
\* answer anything.
ErrorStatusBodies ==
    { JObject([status |-> "error", error |-> "bad query"]),
      JObject([status |-> "error"]),
      JObject([status |-> "success", data |-> PVector]) }

\* What Response.json() raises on a body that is not JSON depends on the
\* installed requests: since 2.27 requests.exceptions.JSONDecodeError, a
\* subclass of both RequestException and json.JSONDecodeError; before that
\* json.JSONDecodeError itself.
JsonDecodeErrors == {"requests.JSONDecodeError", "json.JSONDecodeError"}

\* Subclasses of requests.exceptions.RequestException
RequestExceptions ==
    {"requests.ConnectionError", "requests.HTTPError", "requests.JSONDecodeError"}

\* A response: requests.get raised (no response), or a status class and a body.
ConnFail == [net |-> "failed", ok |-> FALSE, body |-> NotJson,
             decode_exc |-> "json.JSONDecodeError"]

Responses ==
    {ConnFail}
    \cup { [net |-> "ok", ok |-> TRUE, body |-> b,
             decode_exc |-> "json.JSONDecodeError"] : b \in Bodies \ {NotJson} }
    \cup { [net |-> "ok", ok |-> FALSE, body |-> b,
             decode_exc |-> "json.JSONDecodeError"] : b \in ErrorStatusBodies }
    \cup { [net |-> "ok", ok |-> k, body |-> NotJson, decode_exc |-> x] :
             k \in BOOLEAN, x \in JsonDecodeErrors }

\* What the backends answer during a fan-out: one response of each kind of
\* failure (transport, decoding, error envelope, payload of the wrong shape)
\* and a success.
FanOutResponses ==
    { r \in Responses :
        \/ r = ConnFail
        \/ r.net = "ok" /\ r.ok /\ r.body = NotJson
             /\ r.decode_exc = "requests.JSONDecodeError"
        \/ r.net = "ok" /\ r.ok /\ r.body \in Envelopes
             /\ r.body.obj \in { [status |-> "error", error |-> "bad query"],
                                 [status |-> "success", data |-> PNames],
                                 [status |-> "success", data |-> PVector] } }

-----------------------------------------------------------------------------
(* Auth resolver and request executor *)

NoAuth == [type |-> "None"]

\* get_prometheus_auth with the two tests in the other order
BasicFirst_get_prometheus_auth(tenant) ==
    IF Truthy(tenant.username) /\ Truthy(tenant.password)
      THEN [type |-> "HTTPBasicAuth", username |-> tenant.username,
            password |-> tenant.password]
    ELSE IF Truthy(tenant.token)
      THEN [type |-> "dict",
            dict |-> [Authorization |-> <<"Bearer ", tenant.token>>]]
    ELSE NoAuth

\* get_prometheus_auth: a headers dict, an HTTPBasicAuth object, or None
get_prometheus_auth(tenant) ==
    IF Truthy(tenant.token)
      THEN [type |-> "dict",
            dict |-> [Authorization |-> <<"Bearer ", tenant.token>>]]
    ELSE IF Truthy(tenant.username) /\ Truthy(tenant.password)
      THEN [type |-> "HTTPBasicAuth", username |-> tenant.username,
            password |-> tenant.password]
    ELSE NoAuth

\* Lines 185-195: the arguments of requests.get for a resolved tenant
BuildRequest(tenant, tenant_name, endpoint) ==
    LET auth == get_prometheus_auth(tenant)
        h1 == IF auth.type = "dict" THEN auth.dict ELSE EmptyDict
        h2 == IF Truthy(tenant.org_id)
                THEN DictSet(h1, "X-Scope-OrgID", tenant.org_id) ELSE h1
    IN [url |-> rstrip(tenant.url) \o <<"/api/v1/", endpoint>>,
        headers |-> h2,
        auth |-> IF auth.type = "dict" THEN NoAuth ELSE auth,
        tenant |-> tenant_name]

\* result.get('error') without its default
NoDefault_error_msg(result) == Get(result, "error", None)

\* Line 209: error_msg = result.get('error', 'Unknown error')
error_msg(result) == Get(result, "error", "Unknown error")

\* Lines 203-237: what the try block does with the response: the exception
\* that leaves make_prometheus_request, or NoExc and the data returned.
HandleResponse(resp, tenant_name) ==
    LET raise(e) == [exc |-> e, data |-> NotJson]
    IN IF resp.net = "failed"
         THEN raise(Exc("requests.ConnectionError", "connection failed",
                        None, None, <<>>))
       ELSE IF ~resp.ok
         THEN raise(Exc("requests.HTTPError", "error status for url",
                        None, None, <<>>))
       ELSE IF resp.body.json = "invalid"
         THEN IF resp.decode_exc \in RequestExceptions
                THEN raise(Exc(resp.decode_exc, "Expecting value",
                               None, None, <<>>))
                ELSE raise(Exc("ValueError",
                               "Invalid JSON response from Prometheus tenant",
                               tenant_name, "Expecting value", <<>>))
       ELSE IF resp.body.json = "array"
         THEN raise(Exc("TypeError", "list indices must be integers",
                        None, None, <<>>))
       ELSE LET result == resp.body.obj
            IN IF "status" \notin DOMAIN result
                 THEN raise(Exc("KeyError", "", None, "status", <<>>))
               ELSE IF result["status"] # "success"
                 THEN raise(Exc("ValueError", "Prometheus API error for tenant",
                                tenant_name, error_msg(result), <<>>))
               ELSE IF "data" \notin DOMAIN result
                 THEN raise(Exc("KeyError", "", None, "data", <<>>))
               ELSE [exc |-> NoExc, data |-> result["data"]]

\* make_prometheus_request(endpoint, params, tenant_name) against a backend
\* that answers resp: the requests issued, the exception raised (or NoExc)
\* and the data returned.
make_prometheus_request(cfg, endpoint, tenant_arg, resp) ==
    LET tenant_name == IF tenant_arg = None THEN cfg.default_tenant
                       ELSE tenant_arg
        tenant == get_tenant(cfg, tenant_name)
    IN IF tenant = NoTenant
         THEN [requests |-> <<>>,
               exc |-> Exc("ValueError", "Tenant not found", tenant_name, None,
                           list_tenant_names(cfg)),
               data |-> NotJson]
         ELSE LET r == HandleResponse(resp, tenant_name)
              IN [requests |-> <<BuildRequest(tenant, tenant_name, endpoint)>>,
                  exc |-> r.exc, data |-> r.data]

-----------------------------------------------------------------------------
(* Tool handlers *)

SingleOps == {"execute_query", "execute_range_query", "list_metrics",
              "get_metric_metadata", "get_targets"}

Endpoint(op) ==
    CASE op = "execute_query" -> "query"
      [] op = "execute_range_query" -> "query_range"
      [] op = "list_metrics" -> "label/__name__/values"
      [] op = "get_metric_metadata" -> "metadata"
      [] op = "get_targets" -> "targets"

\* data[k] on a payload: KeyError on a dict without k, TypeError on a list
Subscript(data, k) ==
    IF data.json = "array"
      THEN Exc("TypeError", "list indices must be integers", None, None, <<>>)
    ELSE IF k \notin DOMAIN data.obj
      THEN Exc("KeyError", "", None, k, <<>>)
    ELSE NoExc

\* len(data): the items of a list, the keys of a dict
PyLen(data) ==
    IF data.json = "array" THEN Len(data.items)
    ELSE Cardinality(DOMAIN data.obj)

Raised(e) == [status |-> "raised", exc |-> e]
Returned(v) == [status |-> "returned", value |-> v]

\* The result a single-tenant handler builds from the data (lines 287-291,
\* 326-330, 354-358, 379-384, 403-409), or the exception a subscript raises.
Shape(op, data, tenant_name) ==
    IF op \in {"execute_query", "execute_range_query"}
      THEN IF Subscript(data, "resultType") # NoExc
             THEN Raised(Subscript(data, "resultType"))
           ELSE IF Subscript(data, "result") # NoExc
             THEN Raised(Subscript(data, "result"))
           ELSE Returned([resultType |-> data.obj["resultType"],
                          result |-> data.obj["result"],
                          tenant |-> tenant_name])
    ELSE IF op = "list_metrics"
      THEN Returned([metrics |-> data, tenant |-> tenant_name,
                     count |-> PyLen(data)])
    ELSE IF op = "get_metric_metadata"
      THEN IF Subscript(data, "metadata") # NoExc
             THEN Raised(Subscript(data, "metadata"))
           ELSE Returned([metadata |-> data.obj["metadata"], metric |-> "up",
                          tenant |-> tenant_name,
                          count |-> Len(data.obj["metadata"])])
    ELSE IF Subscript(data, "activeTargets") # NoExc
           THEN Raised(Subscript(data, "activeTargets"))
         ELSE IF Subscript(data, "droppedTargets") # NoExc
           THEN Raised(Subscript(data, "droppedTargets"))
         ELSE Returned([activeTargets |-> data.obj["activeTargets"],
                        droppedTargets |-> data.obj["droppedTargets"],
                        tenant |-> tenant_name,
                        active_count |-> Len(data.obj["activeTargets"]),
                        dropped_count |-> Len(data.obj["droppedTargets"])])

\* tenant_name = tenant or config.default_tenant (lines 283, 322, 350, 374, 399)
HandlerTenantName(cfg, tenant) ==
    IF Truthy(tenant) THEN tenant ELSE cfg.default_tenant

\* has_auth of list_tenants (line 253)
has_auth(tenant) == Truthy(tenant.username) \/ Truthy(tenant.token)

\* list_tenants (lines 248-262)
list_tenants(cfg) ==
    [tenants |-> [i \in 1..Len(cfg.tenants) |->
                    [name |-> cfg.tenants[i].name,
                     url |-> cfg.tenants[i].url,
                     has_auth |-> has_auth(cfg.tenants[i]),
                     org_id |-> cfg.tenants[i].org_id]],
     default_tenant |-> cfg.default_tenant,
     total_count |-> Len(cfg.tenants)]

\* The tenant argument of a tool call: omitted, empty, registered or not.
TenantArgs == {None, "", "a", "b", "A"}

-----------------------------------------------------------------------------
NoCall == [op |-> "none", tenant |-> None]
NoOutcome == [status |-> "none"]

Init ==
    /\ env \in EnvSet
    /\ pc = "start"
    /\ config = NoConfig
    /\ load_error = NoExc
    /\ call = NoCall
    /\ requests = <<>>
    /\ responses = <<>>
    /\ outcome = NoOutcome
    /\ results = EmptyDict
    /\ errors = EmptyDict
    /\ idx = 0

\* Line 164: config = load_multi_tenant_config() at import; an exception
\* ends the process before any tool is served.
LoadConfig ==
    /\ pc = "start"
    /\ LET r == load_multi_tenant_config(env)
       IN /\ load_error' = r.exc
          /\ config' = r.cfg
          /\ pc' = IF r.exc = NoExc THEN "ready" ELSE "config_error"
    /\ UNCHANGED <<env, call, requests, responses, outcome, results, errors, idx>>

\* list_tenants
ListTenants ==
    /\ pc = "ready"
    /\ call' = [op |-> "list_tenants", tenant |-> None]
    /\ requests' = <<>>
    /\ responses' = <<>>
    /\ outcome' = Returned(list_tenants(config))
    /\ results' = EmptyDict
    /\ errors' = EmptyDict
    /\ idx' = 0
    /\ pc' = "served"
    /\ UNCHANGED <<env, config, load_error>>

\* execute_query, execute_range_query, list_metrics, get_metric_metadata,
\* get_targets: one call, served to its end (the handlers never await).
SingleTenantOp ==
    /\ pc = "ready"
    /\ \E op \in SingleOps, tenant \in TenantArgs, resp \in Responses :
         LET tenant_name == HandlerTenantName(config, tenant)
             r == make_prometheus_request(config, Endpoint(op), tenant_name, resp)
         IN /\ call' = [op |-> op, tenant |-> tenant]
            /\ requests' = r.requests
            /\ responses' = IF r.requests = <<>> THEN <<>> ELSE <<resp>>
            /\ outcome' = IF r.exc # NoExc THEN Raised(r.exc)
                          ELSE Shape(op, r.data, tenant_name)
    /\ results' = EmptyDict
    /\ errors' = EmptyDict
    /\ idx' = 0
    /\ pc' = "served"
    /\ UNCHANGED <<env, config, load_error>>

\* execute_query_all_tenants up to the loop (lines 429-436)
FanOutStart ==
    /\ pc = "ready"
    /\ pc' = "fanout"
    /\ call' = [op |-> "execute_query_all_tenants", tenant |-> None]
    /\ requests' = <<>>
    /\ responses' = <<>>
    /\ outcome' = NoOutcome
    /\ results' = EmptyDict
    /\ errors' = EmptyDict
    /\ idx' = 0
    /\ UNCHANGED <<env, config, load_error>>

\* A loop that gives up at the first tenant that failed
BreakOnError_LoopContinues(cfg, i, errs) ==
    i < Len(cfg.tenants) /\ errs = EmptyDict

\* for tenant in config.tenants: whether the loop has another iteration
LoopContinues(cfg, i, errs) == i < Len(cfg.tenants)

\* One iteration of the loop (lines 438-451): the try block and its except.
FanOutStep ==
    /\ pc = "fanout"
    /\ LoopContinues(config, idx, errors)
    /\ \E resp \in FanOutResponses :
         LET tenant == config.tenants[idx + 1]
             r == make_prometheus_request(config, "query", tenant.name, resp)
             e == IF r.exc # NoExc THEN r.exc
                  ELSE IF Subscript(r.data, "resultType") # NoExc
                    THEN Subscript(r.data, "resultType")
                  ELSE Subscript(r.data, "result")
         IN /\ requests' = requests \o r.requests
            /\ responses' = IF r.requests = <<>> THEN responses
                            ELSE Append(responses, resp)
            /\ IF e = NoExc
                 THEN /\ results' = DictSet(results, tenant.name,
                                       [resultType |-> r.data.obj["resultType"],
                                        result |-> r.data.obj["result"],
                                        success |-> TRUE])
                      /\ errors' = errors
                 ELSE /\ errors' = DictSet(errors, tenant.name,
                                       [error |-> e, success |-> FALSE])
                      /\ results' = results
    /\ idx' = idx + 1
    /\ UNCHANGED <<env, pc, config, load_error, call, outcome>>

\* Lines 453-469: the aggregate, once the loop is over
FanOutFinish ==
    /\ pc = "fanout"
    /\ ~LoopContinues(config, idx, errors)
    /\ outcome' = Returned([results |-> results, errors |-> errors,
                            successful_tenants |-> Cardinality(DOMAIN results),
                            failed_tenants |-> Cardinality(DOMAIN errors),
                            total_tenants |-> Len(config.tenants)])
    /\ pc' = "served"
    /\ UNCHANGED <<env, config, load_error, call, requests, responses, results,
                   errors, idx>>

\* The result or the exception goes back to the caller and the server waits
\* for the next call; the locals of the handler are gone.
Respond ==
    /\ pc = "served"
    /\ pc' = "ready"
    /\ call' = NoCall
    /\ requests' = <<>>
    /\ responses' = <<>>
    /\ outcome' = NoOutcome
    /\ results' = EmptyDict
    /\ errors' = EmptyDict
    /\ idx' = 0
    /\ UNCHANGED <<env, config, load_error>>

Next ==
    \/ LoadConfig
    \/ ListTenants
    \/ SingleTenantOp
    \/ FanOutStart
    \/ FanOutStep
    \/ FanOutFinish
    \/ Respond

Spec == Init /\ [][Next]_vars

-----------------------------------------------------------------------------
(* Vocabulary of the properties *)

\* The import succeeded: tools are being served.
Serving == pc \in {"ready", "fanout", "served"}

\* A single-tenant tool call has been served to its end.
ServedSingle == pc = "served" /\ call.op \in SingleOps

\* The fan-out call has been served to its end.
ServedFanOut == pc = "served" /\ call.op = "execute_query_all_tenants"

Registered(name) == \E i \in 1..Len(config.tenants) : config.tenants[i].name = name

UniqueNames ==
    \A i, j \in 1..Len(config.tenants) :
        config.tenants[i].name = config.tenants[j].name => i = j

\* The credentials a request carries
HasBearer(req) == "Authorization" \in DOMAIN req.headers
HasBasic(req) == req.auth.type = "HTTPBasicAuth"

\* The request carries the authentication the precedence rule gives record t.
AuthByPrecedence(req, t) ==
    IF Truthy(t.token)
      THEN /\ HasBearer(req)
           /\ req.headers["Authorization"] = <<"Bearer ", t.token>>
           /\ ~HasBasic(req)
    ELSE IF Truthy(t.username) /\ Truthy(t.password)
      THEN /\ HasBasic(req)
           /\ req.auth.username = t.username
           /\ req.auth.password = t.password
           /\ ~HasBearer(req)
    ELSE ~HasBearer(req) /\ ~HasBasic(req)

\* The request goes to record t: its URL, its credentials, its org id.
SentTo(req, t, endpoint) ==
    /\ req.url = rstrip(t.url) \o <<"/api/v1/", endpoint>>
    /\ AuthByPrecedence(req, t)
    /\ IF Truthy(t.org_id)
         THEN /\ "X-Scope-OrgID" \in DOMAIN req.headers
              /\ req.headers["X-Scope-OrgID"] = t.org_id
         ELSE "X-Scope-OrgID" \notin DOMAIN req.headers

-----------------------------------------------------------------------------
(* C10 *)

\* The registry invariants other than uniqueness: the sequence is not empty,
\* every record has a name and a URL, the default names a record.
RegistryInvariantsButUnique ==
    Serving =>
        /\ config.tenants # <<>>
        /\ \A i \in 1..Len(config.tenants) :
               config.tenants[i].name # "" /\ config.tenants[i].url # <<>>
        /\ Registered(config.default_tenant)

\* C10: every registry that construction accepts has a non-empty tenant
\* sequence, records with non-empty name and URL, unique tenant names, and a
\* default tenant name that names an existing record.
C10_RegistryInvariants ==
    Serving =>
        /\ config.tenants # <<>>
        /\ \A i \in 1..Len(config.tenants) :
               config.tenants[i].name # "" /\ config.tenants[i].url # <<>>
        /\ UniqueNames
        /\ Registered(config.default_tenant)

-----------------------------------------------------------------------------
(* C6 *)

\* The configured default-tenant name (set and not empty) matches no element
\* of the PROMETHEUS_TENANTS array.
DefaultMatchesNothing ==
    /\ Truthy(env.default)
    /\ \A i \in 1..Len(env.tenants_json.items) :
           Get(env.tenants_json.items[i], "name", None) # env.default

-----------------------------------------------------------------------------
(* C1 *)

\* C1: execute_query_all_tenants returns successful_tenants + failed_tenants
\* = total_tenants = N, and every registered tenant name is a key of exactly
\* one of the results map and the errors map.
C1_FanOutCounts ==
    ServedFanOut =>
        LET v == outcome.value
        IN /\ v.total_tenants = Len(config.tenants)
           /\ v.successful_tenants + v.failed_tenants = v.total_tenants
           /\ \A i \in 1..Len(config.tenants) :
                  (config.tenants[i].name \in DOMAIN v.results)
                      # (config.tenants[i].name \in DOMAIN v.errors)

\* The same over registries whose names are unique.
FanOutCountsIfUnique == UniqueNames => C1_FanOutCounts

-----------------------------------------------------------------------------
(* C2 *)

\* C2: in execute_query_all_tenants one instant-query request is attempted
\* per registry entry, in registry order, whatever the earlier outcomes: after
\* k iterations exactly k requests have been issued, the i-th under the name
\* of the i-th entry and to the query endpoint, and the call ends only after
\* the last entry and by returning, never by raising.
C2_FanOutAttemptsAll ==
    (pc \in {"fanout", "served"} /\ call.op = "execute_query_all_tenants") =>
        /\ idx <= Len(config.tenants)
        /\ Len(requests) = idx /\ Len(responses) = idx
        /\ \A i \in 1..idx :
               /\ requests[i].tenant = config.tenants[i].name
               /\ requests[i].url[Len(requests[i].url)] = "query"
        /\ pc = "served" =>
               /\ idx = Len(config.tenants)
               /\ outcome.status = "returned"

\* The first of two tenants failed, the second was still queried and
\* succeeded, and the call returned.
C2_Witness ==
    /\ ServedFanOut
    /\ Len(config.tenants) = 2
    /\ config.tenants[1].name # config.tenants[2].name
    /\ config.tenants[1].name \in DOMAIN errors
    /\ config.tenants[2].name \in DOMAIN results
    /\ Len(requests) = 2
    /\ outcome.status = "returned"

-----------------------------------------------------------------------------
(* C3 *)

\* C3: every request carries exactly the authentication chosen by
\* precedence for the record it was resolved to: a Bearer Authorization
\* header and no basic credentials when the token is present (also with
\* username and password set), else basic credentials and no Authorization
\* header when username and password are both present, else neither; no
\* request carries both.
C3_AuthPrecedence ==
    \A i \in 1..Len(requests) :
        /\ AuthByPrecedence(requests[i], get_tenant(config, requests[i].tenant))
        /\ ~(HasBearer(requests[i]) /\ HasBasic(requests[i]))

\* A request for a tenant that has a token, a username and a password.
C3_Witness ==
    /\ Len(requests) = 1
    /\ LET t == get_tenant(config, requests[1].tenant)
       IN Truthy(t.token) /\ Truthy(t.username) /\ Truthy(t.password)
    /\ HasBearer(requests[1])

-----------------------------------------------------------------------------
(* C4 *)

\* C4: resolving with no name yields the default tenant's record, and
\* resolving with the name of any registered record yields exactly that
\* record: the request goes to that record's URL with its credentials and
\* org id.
C4_ResolveExact ==
    ServedSingle =>
        /\ call.tenant = None =>
               /\ Len(requests) = 1
               /\ requests[1].tenant = config.default_tenant
               /\ SentTo(requests[1], get_tenant(config, config.default_tenant),
                         Endpoint(call.op))
        /\ \A i \in 1..Len(config.tenants) :
               call.tenant = config.tenants[i].name =>
                   /\ Len(requests) = 1
                   /\ SentTo(requests[1], config.tenants[i], Endpoint(call.op))

\* The same over registries whose names are unique.
ResolveExactIfUnique == UniqueNames => C4_ResolveExact

-----------------------------------------------------------------------------
(* C5 *)

\* The call failed with tenant-not-found for name, listing the registry.
TenantNotFound(name) ==
    /\ outcome.status = "raised"
    /\ outcome.exc.type = "ValueError"
    /\ outcome.exc.text = "Tenant not found"
    /\ outcome.exc.tenant = name
    /\ outcome.exc.available = list_tenant_names(config)

\* C5: a single-tenant operation called with a tenant name that matches no
\* registered record fails with tenant-not-found carrying the requested name
\* and all registered names, issues no HTTP request, and leaves the server
\* able to serve the next call.
C5_UnknownTenant ==
    (ServedSingle /\ call.tenant # None /\ ~Registered(call.tenant)) =>
        /\ TenantNotFound(call.tenant)
        /\ requests = <<>>
        /\ ENABLED Respond

\* The same for the names that are not the empty string.
UnknownNonEmptyTenant ==
    (ServedSingle /\ Truthy(call.tenant) /\ ~Registered(call.tenant)) =>
        /\ TenantNotFound(call.tenant)
        /\ requests = <<>>
        /\ ENABLED Respond

\* The registry never changes once built.
RegistryReadOnly == [][pc # "start" => config' = config]_vars

-----------------------------------------------------------------------------
(* C7 *)

\* The one response of the call carried a JSON envelope whose status is
\* present and is not "success".
GotErrorEnvelope ==
    /\ Len(responses) = 1
    /\ responses[1].net = "ok"
    /\ responses[1].body.json = "object"
    /\ "status" \in DOMAIN responses[1].body.obj
    /\ responses[1].body.obj["status"] # "success"

\* The call failed with a backend error naming the tenant and carrying the
\* backend's error string, "Unknown error" when there is none.
BackendErrorRaised ==
    /\ outcome.status = "raised"
    /\ outcome.exc.type = "ValueError"
    /\ outcome.exc.text = "Prometheus API error for tenant"
    /\ outcome.exc.tenant = requests[1].tenant
    /\ outcome.exc.detail =
           IF "error" \in DOMAIN responses[1].body.obj
             THEN responses[1].body.obj["error"] ELSE "Unknown error"

\* C7 as stated: whenever the backend returns a JSON envelope whose status is
\* not "success", the executor fails with a backend error whose message holds
\* the tenant name and the backend's error string ("Unknown error" without
\* one), and the data is not returned.
C7_ErrorEnvelope == (ServedSingle /\ GotErrorEnvelope) => BackendErrorRaised

\* C7 amended: the same for the envelopes that come with a 2xx status.
C7_ErrorEnvelope2xx ==
    (ServedSingle /\ GotErrorEnvelope /\ responses[1].ok) => BackendErrorRaised

\* A 2xx error envelope without an error string but with data.
C7_Witness ==
    /\ ServedSingle /\ GotErrorEnvelope /\ responses[1].ok
    /\ DOMAIN responses[1].body.obj = {"status", "data"}
    /\ outcome.status = "raised"
    /\ outcome.exc.detail = "Unknown error"

-----------------------------------------------------------------------------
(* C8 *)

\* C8: each list_tenants summary holds only name, url, has_auth and org_id,
\* and has_auth is true exactly when the tenant has a token or has both
\* username and password, that is when its requests carry credentials.
C8_ListTenantsSummary ==
    (pc = "served" /\ call.op = "list_tenants") =>
        /\ Len(outcome.value.tenants) = Len(config.tenants)
        /\ \A i \in 1..Len(config.tenants) :
               LET t == config.tenants[i]
                   info == outcome.value.tenants[i]
               IN /\ DOMAIN info = {"name", "url", "has_auth", "org_id"}
                  /\ info.name = t.name /\ info.url = t.url
                  /\ info.org_id = t.org_id
                  /\ info.has_auth =
                         (Truthy(t.token)
                            \/ (Truthy(t.username) /\ Truthy(t.password)))

\* The part on secrecy alone: the summaries have no other field.
ListTenantsHidesCredentials ==
    (pc = "served" /\ call.op = "list_tenants") =>
        \A i \in 1..Len(outcome.value.tenants) :
            DOMAIN outcome.value.tenants[i] = {"name", "url", "has_auth", "org_id"}

-----------------------------------------------------------------------------
(* C9 *)

\* Exception classes that report a transport failure
IsTransportError(e) == e.type \in RequestExceptions

\* C9: the executor classifies failures in order and into distinct kinds: a
\* transport failure or a non-2xx status gives a transport error; a 2xx
\* response whose body is not JSON gives a decode error, which is not a
\* transport error and whose message names the tenant; a backend error comes
\* only from a decoded body whose status is not "success".
C9_Classification ==
    (ServedSingle /\ Len(responses) = 1) =>
        LET r == responses[1]
            e == outcome.exc
        IN /\ (r.net = "failed" \/ ~r.ok) =>
                  outcome.status = "raised" /\ IsTransportError(e)
           /\ (r.net = "ok" /\ r.ok /\ r.body.json = "invalid") =>
                  /\ outcome.status = "raised"
                  /\ ~IsTransportError(e)
                  /\ e.text = "Invalid JSON response from Prometheus tenant"
                  /\ e.tenant = requests[1].tenant
           /\ (outcome.status = "raised"
                 /\ e.text = "Prometheus API error for tenant") =>
                  /\ r.net = "ok" /\ r.ok /\ r.body.json = "object"
                  /\ "status" \in DOMAIN r.body.obj
                  /\ r.body.obj["status"] # "success"

\* The same where Response.json() raises json.JSONDecodeError itself
\* (requests before 2.27).
ClassificationOldRequests ==
    (ServedSingle /\ Len(responses) = 1
       /\ responses[1].decode_exc = "json.JSONDecodeError") => C9_Classification

-----------------------------------------------------------------------------
(* C11 *)

\* The name a call resolves when only an absent argument takes the default.
ResolvedName == IF call.tenant = None THEN config.default_tenant ELSE call.tenant

\* The call resolved name: it is the name matched against the registry, the
\* one request goes out under it and a result carries it; a name that no
\* record has gives tenant-not-found and no request.
ResolvesAs(name) ==
    /\ IF Registered(name)
         THEN Len(requests) = 1 /\ requests[1].tenant = name
         ELSE TenantNotFound(name) /\ requests = <<>>
    /\ outcome.status = "returned" => outcome.value.tenant = name

\* C11: in every single-tenant operation the default tenant is substituted
\* only when the tenant argument is absent; any supplied name, the empty
\* string included, is matched exactly and case-sensitively and gives
\* tenant-not-found when no record has it; on success the result's tenant
\* field is the name that was resolved.
C11_DefaultOnlyWhenAbsent == ServedSingle => ResolvesAs(ResolvedName)

\* The same for the calls whose tenant argument is absent or not empty: "A"
\* does not match a record named "a".
DefaultWhenAbsentOrNonEmpty ==
    (ServedSingle /\ call.tenant # "") => ResolvesAs(ResolvedName)

\* What the handlers do with an empty tenant argument: the default tenant.
EmptyNameTakesDefault ==
    (ServedSingle /\ call.tenant = "") => ResolvesAs(config.default_tenant)
=============================================================================
